---- MODULE Spec2Model ----
(***************************************************************************)
(* The Priority admission plugin (plugin/pkg/admission/priority).          *)
(*                                                                         *)
(* Admit resolves and stamps spec.priority on pods; Validate keeps at most *)
(* one PriorityClass marked globalDefault.  Both read PriorityClasses      *)
(* through a lister, a local replica of the persisted classes that the     *)
(* informer updates asynchronously.                                        *)
(*                                                                         *)
(* An optional value (a Go pointer that may be nil) is a sequence of       *)
(* length at most one: <<>> is nil, <<v>> points to v.                     *)
(*                                                                         *)
(* The module also holds the metrics options (metrics.CounterOpts), whose  *)
(* help string two methods decorate, each under its own sync.Once.         *)
(***************************************************************************)
EXTENDS Integers, Sequences, FiniteSets, TLC

\* ------------------------------------------------------------- bounds

\* PriorityClass values range over 1..MaxValue.
MaxValue == 2

\* The goroutines that call the methods of one CounterOpts are
\* 1..MaxGoroutines.
MaxGoroutines == 2

\* ---------------------------------------------------------- constants

SystemClusterCritical == "system-cluster-critical"
SystemNodeCritical == "system-node-critical"
NamespaceSystem == "kube-system"
DefaultPriorityWhenNoDefaultClassExists == 0

\* scheduling.SystemPriorityClasses(): the names of the reserved classes.
SystemPriorityClasses == {SystemNodeCritical, SystemClusterCritical}

\* admission.Create, admission.Update, admission.Delete
Create == "CREATE"
Update == "UPDATE"
Delete == "DELETE"
Operations == {Create, Update, Delete}

podResource == "pods"
priorityClassResource == "priorityclasses"

\* Error kinds: nil, admission.NewForbidden (policy violation),
\* errors.NewBadRequest (malformed input), fmt.Errorf (transient).
NoError == "nil"
Forbidden == "Forbidden"
BadRequest == "BadRequest"
InternalError == "InternalError"

\* ------------------------------------------------------- input domains

ClassValues == 1..MaxValue
\* Names of the classes that may exist; SystemNodeCritical never exists in
\* the bounded model, so a pod naming it names a class that is not found.
ClassNames == {SystemClusterCritical, "a", "b"}
PodClassNames == {""} \cup ClassNames \cup {SystemNodeCritical}
Namespaces == {NamespaceSystem, "default"}
Priorities == {<<>>} \cup {<<v>> : v \in 0..MaxValue}

PriorityClasses == [kind : {"PriorityClass"}, name : ClassNames,
                    value : ClassValues, globalDefault : BOOLEAN]

Pods == [kind : {"Pod"}, priorityClassName : PodClassNames,
         priority : Priorities, critical : BOOLEAN]
\* An object that is not a *api.Pod (the type assertion fails on it).
NotAPod == [kind |-> "Other", priorityClassName |-> "", priority |-> <<>>,
            critical |-> FALSE]

VARIABLES
    store,   \* the persisted PriorityClasses: a set, names unique
    index,   \* the lister's replica of them: a set, names unique
    gates,   \* utilfeature.DefaultFeatureGate
    last,    \* the admission call that has just returned, or Idle
    opts,    \* one metrics.CounterOpts
    goroutines  \* the callers of its methods: where each one is, and its locals

vars == <<store, index, gates, last, opts, goroutines>>

\* ------------------------------------------------ the lister (the index)

RECURSIVE SeqOf(_)
\* The orders in which List may return the classes of S: the lister's store
\* iterates a Go map, so the order differs from call to call.
SeqOf(S) ==
    IF S = {} THEN {<<>>}
    ELSE UNION {{<<x>> \o t : t \in SeqOf(S \ {x})} : x \in S}

\* What can go wrong with a read of the lister on one call: nothing, or the
\* Get fails with an error other than not-found, or the List fails.
Faults == {"none", "Get", "List"}

\* p.lister.Get(name): the class, or a not-found error, or another error.
ListerGet(idx, name, fault) ==
    IF fault = "Get" THEN [err |-> "error", pc |-> <<>>]
    ELSE IF \E c \in idx : c.name = name
         THEN [err |-> "nil", pc |-> <<CHOOSE c \in idx : c.name = name>>]
         ELSE [err |-> "NotFound", pc |-> <<>>]

\* p.lister.List(labels.Everything()): the classes in the order given.
ListerList(list, fault) ==
    IF fault = "List" THEN [err |-> "error", list |-> <<>>]
    ELSE [err |-> "nil", list |-> list]

\* ------------------------------------------------------ the resolver

\* A faulty variant of priorityClassPermittedInNamespace, which C6 must tell
\* from it: only the cluster-critical class is reserved.
priorityClassPermittedInNamespace_ClusterOnly(priorityClassName, namespace) ==
    ~ (priorityClassName = SystemClusterCritical /\ namespace # NamespaceSystem)

\* priorityClassPermittedInNamespace
priorityClassPermittedInNamespace(priorityClassName, namespace) ==
    ~ \E spc \in SystemPriorityClasses :
        spc = priorityClassName /\ namespace # NamespaceSystem

RECURSIVE lowestDefault_AnyClass(_, _)
\* A faulty variant of lowestDefault, which C4 must tell from it: the
\* globalDefault flag of a class is not looked at.
lowestDefault_AnyClass(list, defaultPC) ==
    IF list = <<>> THEN defaultPC
    ELSE LET pci == Head(list)
         IN  IF defaultPC = <<>> \/ defaultPC[1].value > pci.value
             THEN lowestDefault_AnyClass(Tail(list), <<pci>>)
             ELSE lowestDefault_AnyClass(Tail(list), defaultPC)

RECURSIVE lowestDefault_First(_, _)
\* A faulty variant of lowestDefault, which C10 must tell from it: the first
\* default class of the list is taken, whatever its value.
lowestDefault_First(list, defaultPC) ==
    IF list = <<>> THEN defaultPC
    ELSE LET pci == Head(list)
         IN  IF pci.globalDefault /\ defaultPC = <<>>
             THEN lowestDefault_First(Tail(list), <<pci>>)
             ELSE lowestDefault_First(Tail(list), defaultPC)

RECURSIVE lowestDefault(_, _)
\* The loop of getDefaultPriorityClass over the rest of the list, defaultPC
\* being the choice so far (<<>> is nil).
lowestDefault(list, defaultPC) ==
    IF list = <<>> THEN defaultPC
    ELSE LET pci == Head(list)
         IN  IF pci.globalDefault /\ (defaultPC = <<>> \/ defaultPC[1].value > pci.value)
             THEN lowestDefault(Tail(list), <<pci>>)
             ELSE lowestDefault(Tail(list), defaultPC)

\* getDefaultPriorityClass: (defaultPC, err)
getDefaultPriorityClass(list, fault) ==
    LET l == ListerList(list, fault)
    IN  IF l.err # "nil" THEN [dpc |-> <<>>, err |-> l.err]
        ELSE [dpc |-> lowestDefault(l.list, <<>>), err |-> "nil"]

\* getDefaultPriority: (name, value, err)
getDefaultPriority(list, fault) ==
    LET d == getDefaultPriorityClass(list, fault)
    IN  IF d.err # "nil" THEN [name |-> "", value |-> 0, err |-> d.err]
        ELSE IF d.dpc # <<>>
             THEN [name |-> d.dpc[1].name, value |-> d.dpc[1].value, err |-> "nil"]
             ELSE [name |-> "", value |-> DefaultPriorityWhenNoDefaultClassExists,
                   err |-> "nil"]

\* kubelettypes.IsCritical(namespace, annotations): the pod carries the
\* critical marker recognized for its namespace.
IsCritical(namespace, pod) == pod.critical

\* What an admission call hands back: the error, the object as the call left
\* it, the reads of the lister it made (in order, each with its outcome), the
\* value of the local variable priority where the call ended (<<>> when it
\* was never computed), and the function that decided: the dispatch of
\* Admit or Validate itself, or the function it handed the request to.
Outcome(err, obj, reads, computed) ==
    [err |-> err, object |-> obj, reads |-> reads, computed |-> computed,
     by |-> "dispatch"]

\* A faulty variant of admitPodUpdate, which C2 must tell from it: the old
\* priority is copied also over a priority the new pod has.
admitPodUpdate_Overwrite(a) ==
    LET pod == a.object
        oldPod == a.oldObject
    IN  IF oldPod.kind # "Pod" THEN Outcome(BadRequest, pod, <<>>, <<>>)
        ELSE IF oldPod.priority # <<>>
             THEN Outcome(NoError, [pod EXCEPT !.priority = oldPod.priority], <<>>, <<>>)
             ELSE Outcome(NoError, pod, <<>>, <<>>)

\* admitPod, the branch for operation == admission.Update.
admitPodUpdate(a) ==
    LET pod == a.object
        oldPod == a.oldObject
    IN  IF oldPod.kind # "Pod" THEN Outcome(BadRequest, pod, <<>>, <<>>)
        ELSE IF pod.priority = <<>> /\ oldPod.priority # <<>>
             THEN Outcome(NoError, [pod EXCEPT !.priority = oldPod.priority], <<>>, <<>>)
             ELSE Outcome(NoError, pod, <<>>, <<>>)

\* A faulty variant of legacyCriticalInference, which C16 must tell from
\* it: the legacy gate is not looked at.
legacyCriticalInference_GateIgnored(a, g) ==
    LET pod == a.object
    IN  IF pod.priorityClassName = "" /\ IsCritical(a.namespace, pod)
        THEN [pod EXCEPT !.priorityClassName = SystemClusterCritical]
        ELSE pod

\* admitPod, Create: the legacy inference of the class name from the
\* critical-pod annotation.  The pod as the step leaves it.
legacyCriticalInference(a, g) ==
    LET pod == a.object
    IN  IF pod.priorityClassName = ""
           /\ g.ExperimentalCriticalPodAnnotation
           /\ IsCritical(a.namespace, pod)
        THEN [pod EXCEPT !.priorityClassName = SystemClusterCritical]
        ELSE pod

\* A faulty variant of checkAndStamp, which C5 must tell from it: the
\* priority the pod came with is overwritten without a check.
checkAndStamp_NoCheck(pod, priority, reads) ==
    Outcome(NoError, [pod EXCEPT !.priority = <<priority>>], reads, <<priority>>)

\* A faulty variant of checkAndStamp, which C20 must tell from it: the
\* computed priority is stamped before the check, also on the pod that is
\* rejected.
checkAndStamp_StampFirst(pod, priority, reads) ==
    IF pod.priority # <<>> /\ pod.priority[1] # priority
    THEN Outcome(Forbidden, [pod EXCEPT !.priority = <<priority>>], reads, <<priority>>)
    ELSE Outcome(NoError, [pod EXCEPT !.priority = <<priority>>], reads, <<priority>>)

\* admitPod, Create: the consistency check of a priority the pod came with,
\* and the stamping of the computed priority.
checkAndStamp(pod, priority, reads) ==
    IF pod.priority # <<>> /\ pod.priority[1] # priority
    THEN Outcome(Forbidden, pod, reads, <<priority>>)
    ELSE Outcome(NoError, [pod EXCEPT !.priority = <<priority>>], reads, <<priority>>)

\* admitPod, Create: the pod names no class.
resolveDefault(pod, list, fault) ==
    LET d == getDefaultPriority(list, fault)
        reads == <<[op |-> "List", res |-> d.err]>>
    IN  IF d.err # "nil" THEN Outcome(InternalError, pod, reads, <<>>)
        ELSE checkAndStamp([pod EXCEPT !.priorityClassName = d.name], d.value, reads)

\* A faulty variant of resolveNamed, which C3 must tell from it: the value
\* of the class found is not assigned to priority, which keeps its zero
\* value.
resolveNamed_ValueDropped(pod, namespace, idx, fault) ==
    LET pcName == pod.priorityClassName
    IN  IF ~ priorityClassPermittedInNamespace(pcName, namespace)
        THEN Outcome(Forbidden, pod, <<>>, <<>>)
        ELSE LET got == ListerGet(idx, pcName, fault)
                 reads == <<[op |-> "Get", res |-> got.err]>>
             IN  IF got.err = "NotFound" THEN Outcome(Forbidden, pod, reads, <<>>)
                 ELSE IF got.err # "nil" THEN Outcome(InternalError, pod, reads, <<>>)
                 ELSE checkAndStamp(pod, 0, reads)

\* A faulty variant of resolveNamed, which C12 must tell from it: a class
\* that is not found is reported like any other failure of the lookup.
resolveNamed_NotFoundTransient(pod, namespace, idx, fault) ==
    LET pcName == pod.priorityClassName
    IN  IF ~ priorityClassPermittedInNamespace(pcName, namespace)
        THEN Outcome(Forbidden, pod, <<>>, <<>>)
        ELSE LET got == ListerGet(idx, pcName, fault)
                 reads == <<[op |-> "Get", res |-> got.err]>>
             IN  IF got.err # "nil" THEN Outcome(InternalError, pod, reads, <<>>)
                 ELSE checkAndStamp(pod, got.pc[1].value, reads)

\* admitPod, Create: the pod names a class.
resolveNamed(pod, namespace, idx, fault) ==
    LET pcName == pod.priorityClassName
    IN  IF ~ priorityClassPermittedInNamespace(pcName, namespace)
        THEN Outcome(Forbidden, pod, <<>>, <<>>)
        ELSE LET got == ListerGet(idx, pcName, fault)
                 reads == <<[op |-> "Get", res |-> got.err]>>
             IN  IF got.err = "NotFound" THEN Outcome(Forbidden, pod, reads, <<>>)
                 ELSE IF got.err # "nil" THEN Outcome(InternalError, pod, reads, <<>>)
                 ELSE checkAndStamp(pod, got.pc[1].value, reads)

\* admitPod, the branch for operation == admission.Create.
admitPodCreate(a, g, idx, list, fault) ==
    LET pod == legacyCriticalInference(a, g)
    IN  IF pod.priorityClassName = ""
        THEN resolveDefault(pod, list, fault)
        ELSE resolveNamed(pod, a.namespace, idx, fault)

\* A faulty variant of admitPod, which C1 must tell from it: only an Update
\* is handled.
admitPod_UpdateOnly(a, g, idx, list, fault) ==
    IF a.object.kind # "Pod" THEN Outcome(BadRequest, a.object, <<>>, <<>>)
    ELSE IF a.operation = Update THEN admitPodUpdate(a)
    ELSE Outcome(NoError, a.object, <<>>, <<>>)

\* admitPod
admitPod(a, g, idx, list, fault) ==
    IF a.object.kind # "Pod" THEN Outcome(BadRequest, a.object, <<>>, <<>>)
    ELSE IF a.operation = Update THEN admitPodUpdate(a)
    ELSE IF a.operation = Create THEN admitPodCreate(a, g, idx, list, fault)
    ELSE Outcome(NoError, a.object, <<>>, <<>>)

\* A faulty variant of Admit, which C11 must tell from it: a write of a
\* subresource of pods is handed to admitPod too.
AdmitOutcome_SubresourceIgnored(a, g, idx, list, fault) ==
    IF ~ g.PodPriority THEN Outcome(NoError, a.object, <<>>, <<>>)
    ELSE IF a.resource = podResource
         THEN IF a.operation = Create \/ a.operation = Update
              THEN [admitPod(a, g, idx, list, fault) EXCEPT !.by = "admitPod"]
              ELSE Outcome(NoError, a.object, <<>>, <<>>)
         ELSE Outcome(NoError, a.object, <<>>, <<>>)

\* A faulty variant of Admit, which C15 must tell from it: the PodPriority
\* gate is not looked at.
AdmitOutcome_GateIgnored(a, g, idx, list, fault) ==
    IF a.subresource # "" THEN Outcome(NoError, a.object, <<>>, <<>>)
    ELSE IF a.resource = podResource
         THEN IF a.operation = Create \/ a.operation = Update
              THEN [admitPod(a, g, idx, list, fault) EXCEPT !.by = "admitPod"]
              ELSE Outcome(NoError, a.object, <<>>, <<>>)
         ELSE Outcome(NoError, a.object, <<>>, <<>>)

\* priorityPlugin.Admit
AdmitOutcome(a, g, idx, list, fault) ==
    IF ~ g.PodPriority THEN Outcome(NoError, a.object, <<>>, <<>>)
    ELSE IF a.subresource # "" THEN Outcome(NoError, a.object, <<>>, <<>>)
    ELSE IF a.resource = podResource
         THEN IF a.operation = Create \/ a.operation = Update
              THEN [admitPod(a, g, idx, list, fault) EXCEPT !.by = "admitPod"]
              ELSE Outcome(NoError, a.object, <<>>, <<>>)
         ELSE Outcome(NoError, a.object, <<>>, <<>>)

\* ----------------------------------------------------- the validator

\* Faulty variants of anotherDefaultExists.  C7 must tell the first from
\* it: an Update of the default class itself is refused too.  C8 the second:
\* an Update is never refused.  C9 the third: a Create is never refused.
anotherDefaultExists_SelfRefused(operation, dpc, pc) ==
    operation = Create \/ operation = Update

anotherDefaultExists_CreateOnly(operation, dpc, pc) ==
    operation = Create

anotherDefaultExists_UpdateOnly(operation, dpc, pc) ==
    operation = Update /\ dpc.name # pc.name

\* validatePriorityClass: the condition under which a class that is marked
\* default is refused, dpc being the default class found.
anotherDefaultExists(operation, dpc, pc) ==
    operation = Create \/ (operation = Update /\ dpc.name # pc.name)

\* validatePriorityClass
validatePriorityClass(a, list, fault) ==
    LET pc == a.object
    IN  IF pc.kind # "PriorityClass" THEN Outcome(BadRequest, pc, <<>>, <<>>)
        ELSE IF ~ pc.globalDefault THEN Outcome(NoError, pc, <<>>, <<>>)
        ELSE LET d == getDefaultPriorityClass(list, fault)
                 reads == <<[op |-> "List", res |-> d.err]>>
             IN  IF d.err # "nil" THEN Outcome(InternalError, pc, reads, <<>>)
                 ELSE IF d.dpc # <<>> /\ anotherDefaultExists(a.operation, d.dpc[1], pc)
                      THEN Outcome(Forbidden, pc, reads, <<>>)
                      ELSE Outcome(NoError, pc, reads, <<>>)

\* priorityPlugin.Validate
ValidateOutcome(a, list, fault) ==
    IF a.subresource # "" THEN Outcome(NoError, a.object, <<>>, <<>>)
    ELSE IF a.resource = priorityClassResource
         THEN IF a.operation = Create \/ a.operation = Update
              THEN [validatePriorityClass(a, list, fault)
                        EXCEPT !.by = "validatePriorityClass"]
              ELSE Outcome(NoError, a.object, <<>>, <<>>)
         ELSE Outcome(NoError, a.object, <<>>, <<>>)

\* ------------------------------------------- the metrics options

\* A string is the sequence of the parts it was formatted from, the help
\* text the metric was declared with being one part.
OriginalHelp == "help"
Version == "1.15.0"
ALPHA == "ALPHA"

\* A sync.Once that no call has completed, its mutex free (held by no
\* goroutine).
NewOnce == [done |-> FALSE, m |-> 0]

\* A CounterOpts as a metric declares it.
NewCounterOpts ==
    [Help |-> <<OriginalHelp>>,
     DeprecatedVersion |-> Version,
     StabilityLevel |-> ALPHA,
     deprecateOnce |-> NewOnce,
     annotateOnce |-> NewOnce]

\* fmt.Sprintf("(Deprecated since %v) %v", o.DeprecatedVersion, o.Help)
DeprecatedHelp(version, help) == <<"(Deprecated since", version, ")">> \o help

\* fmt.Sprintf("[%v] %v", o.StabilityLevel, o.Help)
AnnotatedHelp(level, help) == <<"[", level, "]">> \o help

Goroutines == 1..MaxGoroutines
Methods == {"markDeprecated", "annotateStabilityLevel"}

\* The sync.Once that a method runs its function under.
OnceOf(method) ==
    IF method = "markDeprecated" THEN "deprecateOnce" ELSE "annotateOnce"

\* A goroutine that is in no call.
Parked == [pc |-> "idle", method |-> "", help |-> <<>>]

\* ------------------------------------------------------------ requests

Subresources == {"", "status"}
Resources == {podResource, priorityClassResource, "nodes"}

Attributes(op, res, sub, ns, obj, old) ==
    [operation |-> op, resource |-> res, subresource |-> sub, namespace |-> ns,
     object |-> obj, oldObject |-> old]

\* Creates of pods: every pod of the bounded domain, in every namespace.
PodCreates ==
    {Attributes(Create, podResource, "", ns, obj, NotAPod) :
        ns \in Namespaces, obj \in Pods \cup {NotAPod}}

\* Updates of pods (in one namespace: an update reads none): the old object
\* is the pod with any priority, or no pod.
PodUpdates ==
    UNION {{Attributes(Update, podResource, "", ns, obj, old) :
                old \in {[obj EXCEPT !.priority = q] : q \in Priorities} \cup {NotAPod}} :
           ns \in {"default"}, obj \in Pods}

\* Every other request: deletes, subresources, other resources.  None of
\* them reads its object; two pods stand for the objects.
OtherObjects ==
    {[kind |-> "Pod", priorityClassName |-> n, priority |-> <<>>, critical |-> TRUE] :
        n \in {"", "a"}}
OtherRequests ==
    {a \in {Attributes(op, res, sub, ns, obj, NotAPod) :
                op \in Operations, res \in Resources, sub \in Subresources,
                ns \in {"default"}, obj \in OtherObjects} :
        ~ (a.resource = podResource /\ a.subresource = "" /\ a.operation # Delete)}

AdmitRequests == PodCreates \cup PodUpdates \cup OtherRequests

\* Names of the classes that requests write.
WrittenClassNames == {"a", "b"}
WrittenClasses == {c \in PriorityClasses : c.name \in WrittenClassNames}

\* Creates of classes.  The storage, not the admission, refuses a create of
\* a name that exists.
ClassCreates ==
    {Attributes(Create, priorityClassResource, "", "", obj, NotAPod) :
        obj \in WrittenClasses \cup {NotAPod}}

\* Updates of classes: the API server reads the old object first, so only a
\* class that is persisted is updated.
ClassUpdates(st) ==
    UNION {{Attributes(Update, priorityClassResource, "", "", obj, old) :
                old \in {c \in st : c.name = obj.name}} :
           obj \in WrittenClasses}

\* Every other request that reaches Validate: deletes of persisted classes,
\* writes of a subresource, writes of pods.
ClassOthers(st) ==
    {Attributes(Delete, priorityClassResource, "", "", obj, NotAPod) : obj \in st}
    \cup {Attributes(Update, priorityClassResource, "status", "", obj, obj) : obj \in st}
    \cup {Attributes(Create, podResource, "", "default", obj, NotAPod) :
                obj \in OtherObjects}

ValidateRequests(st) == ClassCreates \cup ClassUpdates(st) \cup ClassOthers(st)

\* The persisted classes after the API server has stored the write of an
\* accepted request.
Persisted(st, a) ==
    IF a.resource # priorityClassResource \/ a.subresource # ""
        \/ a.object.kind # "PriorityClass"
    THEN st
    ELSE LET held == \E c \in st : c.name = a.object.name
             others == {c \in st : c.name # a.object.name}
         IN  IF a.operation = Create
             THEN IF held THEN st ELSE st \cup {a.object}
             ELSE IF a.operation = Update
             THEN IF held THEN others \cup {a.object} ELSE st
             ELSE others

\* ------------------------------------------------------------- actions

Idle == [call |-> "none"]

Init ==
    /\ store = {}
    /\ index = {}
    /\ gates = [PodPriority |-> TRUE, ExperimentalCriticalPodAnnotation |-> FALSE]
    /\ last = Idle
    /\ opts = NewCounterOpts
    /\ goroutines = [g \in Goroutines |-> Parked]

\* The informer delivers an add, an update or a delete of the class of one
\* name to the replica.
InformerEvent(name, now) ==
    /\ last = Idle
    /\ index' = {c \in index : c.name # name} \cup now
    /\ index' # index
    /\ UNCHANGED <<store, gates, last, opts, goroutines>>

\* The informer brings the replica's entry for one name up to date with the
\* persisted classes.
InformerSync(name) ==
    /\ last = Idle
    /\ index' = {c \in index : c.name # name} \cup {c \in store : c.name = name}
    /\ index' # index
    /\ UNCHANGED <<store, gates, last, opts, goroutines>>

\* A feature gate is switched.
SetFeatureGate(gate, on) ==
    /\ last = Idle
    /\ gates[gate] # on
    /\ gates' = [gates EXCEPT ![gate] = on]
    /\ UNCHANGED <<store, index, last, opts, goroutines>>

\* The API server calls Admit on a request; the call runs to its return.
Admit(a, list, fault) ==
    /\ last = Idle
    /\ last' = [call |-> "Admit", request |-> a,
                out |-> AdmitOutcome(a, gates, index, list, fault)]
    /\ UNCHANGED <<store, index, gates, opts, goroutines>>

\* The API server calls Validate on a request; the call runs to its return.
Validate(a, list, fault) ==
    /\ last = Idle
    /\ last' = [call |-> "Validate", request |-> a,
                out |-> ValidateOutcome(a, list, fault)]
    /\ UNCHANGED <<store, index, gates, opts, goroutines>>

\* Admit is called on some request of the bounded domain, the lister
\* answering in some order and with or without a failure.
AdmitCall ==
    /\ last = Idle
    /\ \E a \in AdmitRequests : \E list \in SeqOf(index) : \E fault \in Faults :
            Admit(a, list, fault)

\* Validate is called on some request of the bounded domain.
ValidateCall ==
    /\ last = Idle
    /\ \E a \in ValidateRequests(store) : \E list \in SeqOf(index) :
            \E fault \in {"none", "List"} : Validate(a, list, fault)

\* Validate is called while the replica is up to date.
ValidateCallSynced ==
    /\ index = store
    /\ ValidateCall

\* The API server takes the result of the call: it stores the write that
\* Validate accepted, and drops the one it refused.
Return ==
    /\ last # Idle
    /\ last' = Idle
    /\ store' = IF last.call = "Validate" /\ last.out.err = NoError
                THEN Persisted(store, last.request)
                ELSE store
    /\ UNCHANGED <<index, gates, opts, goroutines>>

Next ==
    \/ \E name \in ClassNames :
         \E now \in {{}} \cup {{c} : c \in {x \in PriorityClasses : x.name = name}} :
            InformerEvent(name, now)
    \/ \E gate \in {"PodPriority", "ExperimentalCriticalPodAnnotation"} :
         \E on \in BOOLEAN : SetFeatureGate(gate, on)
    \/ AdmitCall
    \/ Return

\* The resolver: pods are admitted against whatever the replica holds.
Spec == Init /\ [][Next]_vars

\* The validator: classes are written, each write Validate accepts is
\* persisted, and the replica follows the persisted classes with a lag.
NextClasses ==
    \/ ValidateCall
    \/ Return
    \/ \E name \in WrittenClassNames : InformerSync(name)

SpecClasses == Init /\ [][NextClasses]_vars

\* The validator behind a replica that is up to date whenever it is read:
\* requests are validated one at a time, and the replica has observed every
\* persisted write before the next request is validated.
NextSynced ==
    \/ ValidateCallSynced
    \/ Return
    \/ \E name \in WrittenClassNames : InformerSync(name)

SpecSynced == Init /\ [][NextSynced]_vars

\* The whole plug-in behind a replica that lags: the API server hands every
\* request to both passes, so Admit and Validate each see the writes of
\* classes, the writes of pods and every other request.
PluginRequests(st) ==
    ValidateRequests(st) \cup OtherRequests \cup PodCreates
    \cup {Attributes(Update, podResource, "", "default", obj, obj) :
                obj \in OtherObjects}

\* Admit is called on some request of either resource.
AdmitPluginCall ==
    /\ last = Idle
    /\ \E a \in PluginRequests(store) : \E list \in SeqOf(index) :
            \E fault \in Faults : Admit(a, list, fault)

\* Validate is called on some request of either resource.
ValidatePluginCall ==
    /\ last = Idle
    /\ \E a \in PluginRequests(store) : \E list \in SeqOf(index) :
            \E fault \in {"none", "List"} : Validate(a, list, fault)

NextPlugin ==
    \/ AdmitPluginCall
    \/ ValidatePluginCall
    \/ Return
    \/ \E name \in WrittenClassNames : InformerSync(name)

SpecPlugin == Init /\ [][NextPlugin]_vars

\* --------------------------------------- actions of the metrics options

pluginVars == <<store, index, gates, last>>

\* A goroutine calls markDeprecated or annotateStabilityLevel.
Call(g, method) ==
    /\ goroutines[g].pc = "idle"
    /\ goroutines' = [goroutines EXCEPT ![g] = [Parked EXCEPT !.pc = "Do",
                                                            !.method = method]]
    /\ UNCHANGED <<opts, pluginVars>>

\* sync.Once.Do: the fast path returns when the function has completed.
OnceDo(g) ==
    LET me == goroutines[g]
    IN  /\ me.pc = "Do"
        /\ goroutines' = [goroutines EXCEPT ![g] =
                            IF opts[OnceOf(me.method)].done THEN Parked
                            ELSE [me EXCEPT !.pc = "doSlow"]]
        /\ UNCHANGED <<opts, pluginVars>>

\* sync.Once.doSlow: the mutex of the Once is taken, and done is looked at
\* again under it.
OnceDoSlow(g) ==
    LET me == goroutines[g]
        once == OnceOf(me.method)
    IN  /\ me.pc = "doSlow"
        /\ opts[once].m = 0
        /\ opts' = [opts EXCEPT ![once].m = g]
        /\ goroutines' = [goroutines EXCEPT ![g].pc =
                            IF opts[once].done THEN "unlock" ELSE "read"]
        /\ UNCHANGED pluginVars

\* The function of either method evaluates the arguments of Sprintf: it
\* reads o.Help.  The two methods run their functions under different
\* Onces, so nothing orders the read and the assignment of one function
\* against those of the other: the accesses to o.Help race, and the steps
\* interleave freely.
ReadHelp(g) ==
    /\ goroutines[g].pc = "read"
    /\ goroutines' = [goroutines EXCEPT ![g].pc = "write", ![g].help = opts.Help]
    /\ UNCHANGED <<opts, pluginVars>>

\* The function of either method assigns the formatted string to o.Help.
WriteHelp(g) ==
    LET me == goroutines[g]
    IN  /\ me.pc = "write"
        /\ opts' = [opts EXCEPT !.Help =
                      IF me.method = "markDeprecated"
                      THEN DeprecatedHelp(opts.DeprecatedVersion, me.help)
                      ELSE AnnotatedHelp(opts.StabilityLevel, me.help)]
        /\ goroutines' = [goroutines EXCEPT ![g].pc = "unlock"]
        /\ UNCHANGED pluginVars

\* sync.Once.doSlow returns: done is stored after the function has run, and
\* the mutex is released.
OnceUnlock(g) ==
    LET me == goroutines[g]
        once == OnceOf(me.method)
    IN  /\ me.pc = "unlock"
        /\ opts' = [opts EXCEPT ![once] = [done |-> TRUE, m |-> 0]]
        /\ goroutines' = [goroutines EXCEPT ![g] = Parked]
        /\ UNCHANGED pluginVars

NextMetrics ==
    \E g \in Goroutines :
        \/ \E method \in Methods : Call(g, method)
        \/ OnceDo(g)
        \/ OnceDoSlow(g)
        \/ ReadHelp(g)
        \/ WriteHelp(g)
        \/ OnceUnlock(g)

SpecMetrics == Init /\ [][NextMetrics]_vars

\* =================================================== the claims, checked

\* The call that has just returned is a Create of a pod on the primary
\* resource, as Admit received it.
PodCreateReturned ==
    /\ last.call = "Admit"
    /\ last.request.operation = Create
    /\ last.request.resource = podResource
    /\ last.request.subresource = ""
    /\ last.request.object.kind = "Pod"

\* The call that has just returned is a Create of a pod that Admit handed to
\* admitPod.
CreateResolved == PodCreateReturned /\ last.out.by = "admitPod"

\* The call that has just returned is an Update of a pod, with a pod as its
\* old object, that Admit handed to admitPod.
UpdateResolved ==
    /\ last.call = "Admit"
    /\ last.out.by = "admitPod"
    /\ last.request.operation = Update
    /\ last.request.object.kind = "Pod"
    /\ last.request.oldObject.kind = "Pod"

Defaults(idx) == {c \in idx : c.globalDefault}
ValuesOf(S) == {c.value : c \in S}
Lowest(S) == CHOOSE v \in S : \A w \in S : v <= w
ListSucceeded(reads) == reads = <<[op |-> "List", res |-> "nil"]>>
GetSucceeded(reads) == reads = <<[op |-> "Get", res |-> "nil"]>>

\* The legacy inference applies to the request: it names no class, the gate
\* is on and the pod carries the critical marker.
InferenceApplies(a) ==
    /\ a.object.priorityClassName = ""
    /\ gates.ExperimentalCriticalPodAnnotation
    /\ a.object.critical

\* ------------------------------------------------------------------ C1

\* C1, as stated: after every successful Create admission of a pod, the
\* pod's priority is populated.
C1_PriorityPopulatedAlways ==
    (PodCreateReturned /\ last.out.err = NoError)
        => last.out.object.priority # <<>>

\* C1, amended: with the PodPriority feature gate enabled, after every
\* successful Create admission of a pod, whatever class name, priority and
\* namespace it came with and whatever the index holds, the pod's priority
\* is populated.
C1_PriorityPopulated ==
    (PodCreateReturned /\ gates.PodPriority /\ last.out.err = NoError)
        => last.out.object.priority # <<>>

\* A pod that came without a priority was admitted on Create, with the gate
\* enabled, and left with one.
C1_Witness ==
    /\ PodCreateReturned
    /\ gates.PodPriority
    /\ last.out.err = NoError
    /\ last.request.object.priority = <<>>
    /\ last.out.object.priority # <<>>

\* ------------------------------------------------------------------ C2

\* C2: an Update of a pod succeeds without a read of the index, and leaves
\* the new pod as it came except for its priority, which becomes the old
\* pod's when the new pod has none and stays as it is otherwise.
C2_UpdatePreserves ==
    UpdateResolved =>
        LET new == last.request.object
            old == last.request.oldObject
        IN  /\ last.out.err = NoError
            /\ last.out.reads = <<>>
            /\ last.out.object =
                 [new EXCEPT !.priority =
                    IF new.priority = <<>> THEN old.priority ELSE new.priority]

\* An Update whose new pod had no priority took the old pod's, and the class
\* name it carried names no class of the index.
C2_Witness ==
    /\ UpdateResolved
    /\ last.request.object.priority = <<>>
    /\ last.request.oldObject.priority = <<1>>
    /\ last.out.object.priority = <<1>>
    /\ last.request.object.priorityClassName = "a"
    /\ \A c \in index : c.name # "a"

\* ------------------------------------------------------------------ C3

\* C3: for a Create of a pod that names a class C that the index holds with
\* value v, the priority computed after the lookup is v, never the value of
\* a default class or the fallback (the index is not listed); and when the
\* pod is admitted, its priority is v and its class name is still C.
C3_NamedClassValue ==
    (CreateResolved /\ last.request.object.priorityClassName # "") =>
        \A c \in index :
            c.name = last.request.object.priorityClassName =>
                /\ \A i \in 1..Len(last.out.reads) : last.out.reads[i].op = "Get"
                /\ GetSucceeded(last.out.reads) => last.out.computed = <<c.value>>
                /\ last.out.computed \in {<<>>, <<c.value>>}
                /\ last.out.err = NoError =>
                     /\ last.out.object.priority = <<c.value>>
                     /\ last.out.object.priorityClassName = c.name

\* A pod naming a class of the index was admitted with that class's value
\* while the index held a default class of another value.
C3_Witness ==
    /\ CreateResolved
    /\ last.out.err = NoError
    /\ last.request.object.priorityClassName = "a"
    /\ \E c \in index : c.name = "a" /\ last.out.object.priority = <<c.value>>
    /\ \E d \in Defaults(index) : d.name # "a" /\ <<d.value>> # last.out.object.priority
    /\ last.out.object.priority # <<DefaultPriorityWhenNoDefaultClassExists>>

\* ------------------------------------------------------------------ C4

\* C4: for a Create of a pod with no priority and no class name, to which
\* the legacy inference does not apply, when the index holds no default
\* class, the index is listed once and, the list having succeeded, the pod
\* is admitted with the fallback constant as its priority and with its
\* class name still empty.
C4_FallbackWhenNoDefault ==
    (/\ CreateResolved
     /\ last.request.object.priorityClassName = ""
     /\ last.request.object.priority = <<>>
     /\ ~ InferenceApplies(last.request)
     /\ Defaults(index) = {}) =>
        /\ Len(last.out.reads) = 1 /\ last.out.reads[1].op = "List"
        /\ ListSucceeded(last.out.reads) =>
             /\ last.out.err = NoError
             /\ last.out.object.priority = <<DefaultPriorityWhenNoDefaultClassExists>>
             /\ last.out.object.priorityClassName = ""

\* Such a pod was admitted with the fallback while the index held classes,
\* none of them a default.
C4_Witness ==
    /\ CreateResolved
    /\ last.request.object.priorityClassName = ""
    /\ last.request.object.priority = <<>>
    /\ ~ InferenceApplies(last.request)
    /\ Defaults(index) = {}
    /\ index # {}
    /\ last.out.err = NoError
    /\ last.out.object.priority = <<DefaultPriorityWhenNoDefaultClassExists>>

\* ------------------------------------------------------------------ C5

\* The value that resolution gives a Create request against the index: the
\* value of the class it names (given or inferred), or else the lowest value
\* of the default classes, or else the fallback constant; <<>> when it names
\* a class the index does not hold.
ResolutionOf(a) ==
    LET name == IF InferenceApplies(a) THEN SystemClusterCritical
                ELSE a.object.priorityClassName
        named == {c \in index : c.name = name}
    IN  IF name # ""
        THEN IF named = {} THEN <<>> ELSE <<Lowest(ValuesOf(named))>>
        ELSE IF Defaults(index) # {}
             THEN <<Lowest(ValuesOf(Defaults(index)))>>
             ELSE <<DefaultPriorityWhenNoDefaultClassExists>>

C6_NamespaceRestriction ==
    /\ \A n \in PodClassNames : \A ns \in Namespaces :
         priorityClassPermittedInNamespace(n, ns)
            <=> ~ (n \in SystemPriorityClasses /\ ns # NamespaceSystem)
    /\ (CreateResolved /\ last.request.object.priorityClassName \in SystemPriorityClasses) =>
         LET name == last.request.object.priorityClassName
             out == last.out
         IN  IF last.request.namespace # NamespaceSystem
             THEN out.err = Forbidden /\ out.reads = <<>>
             ELSE /\ Len(out.reads) = 1 /\ out.reads[1].op = "Get"
                  /\ \A c \in index :
                       (/\ c.name = name
                        /\ GetSucceeded(out.reads)
                        /\ last.request.object.priority \in {<<>>, <<c.value>>})
                          => out.err = NoError

\* A Create naming a reserved class that the index holds was rejected
\* outside the system namespace.
C6_Witness ==
    /\ CreateResolved
    /\ last.request.object.priorityClassName = SystemClusterCritical
    /\ last.request.object.priority = <<>>
    /\ last.request.namespace = "default"
    /\ \E c \in index : c.name = SystemClusterCritical
    /\ last.out.err = Forbidden

\* ----------------------------------------------------------------- C10

\* C10: when the index lists more than one default class, a Create of a pod
\* with no class name and no priority (the legacy inference not applying)
\* is admitted with the lowest value of the default classes as its
\* priority and with the name of a default class of that value.
C10_LowestDefaultWins ==
    (/\ CreateResolved
     /\ last.request.object.priorityClassName = ""
     /\ last.request.object.priority = <<>>
     /\ ~ InferenceApplies(last.request)
     /\ Cardinality(Defaults(index)) > 1
     /\ ListSucceeded(last.out.reads)) =>
        LET low == Lowest(ValuesOf(Defaults(index)))
        IN  /\ last.out.err = NoError
            /\ last.out.object.priority = <<low>>
            /\ \E d \in Defaults(index) :
                 d.name = last.out.object.priorityClassName /\ d.value = low

\* The index listed three default classes, of values 1 and 2, and the pod
\* was admitted with priority 1.
C10_Witness ==
    /\ CreateResolved
    /\ last.request.object.priorityClassName = ""
    /\ last.request.object.priority = <<>>
    /\ ~ InferenceApplies(last.request)
    /\ ValuesOf(Defaults(index)) = {1, 2}
    /\ Cardinality(Defaults(index)) = 3
    /\ last.out.err = NoError
    /\ last.out.object.priority = <<1>>

\* ------------------------------------------------------------------ C7

\* The call that has just returned is a Create or Update of a PriorityClass
\* that Validate handed to validatePriorityClass.
ClassValidated ==
    /\ last.call = "Validate"
    /\ last.out.by = "validatePriorityClass"
    /\ last.request.object.kind = "PriorityClass"

\* C7: when the index shows exactly one default class D, the validation of
\* a class marked default lists the index once and, the list having
\* succeeded, (a) a Create is rejected as a policy violation, (b) an Update
\* of the class named as D is accepted, (c) an Update of a class of another
\* name is rejected as a policy violation.
C7_DefaultUniqueness ==
    (/\ ClassValidated
     /\ last.request.object.globalDefault
     /\ Cardinality(Defaults(index)) = 1) =>
        LET D == CHOOSE d \in Defaults(index) : TRUE
            pc == last.request.object
            out == last.out
        IN  /\ Len(out.reads) = 1 /\ out.reads[1].op = "List"
            /\ ListSucceeded(out.reads) =>
                 /\ last.request.operation = Create => out.err = Forbidden
                 /\ (last.request.operation = Update /\ pc.name = D.name)
                        => out.err = NoError
                 /\ (last.request.operation = Update /\ pc.name # D.name)
                        => out.err = Forbidden

\* With one default class in the index, the Update that marks another class
\* of the index default was rejected.
C7_Witness ==
    /\ ClassValidated
    /\ last.request.operation = Update
    /\ last.request.object.globalDefault
    /\ Cardinality(Defaults(index)) = 1
    /\ \E c \in index : c.name = last.request.object.name /\ ~ c.globalDefault
    /\ last.out.err = Forbidden

\* ------------------------------------------------------------------ C8

\* C8: when every validation reads a replica that is up to date with the
\* persisted classes, at most one persisted class is marked default, after
\* any sequence of accepted creates and updates.
C8_SingleDefault == Cardinality(Defaults(store)) <= 1

\* Two classes are persisted, one of them the default, and the request that
\* would have made a second default has just been rejected.
C8_Witness ==
    /\ Cardinality(store) = 2
    /\ Cardinality(Defaults(store)) = 1
    /\ ClassValidated
    /\ last.request.object.globalDefault
    /\ \E d \in Defaults(store) : d.name # last.request.object.name
    /\ last.out.err = Forbidden

\* ------------------------------------------------------------------ C9

\* The verdict on a Create of a class marked default rests on the replica
\* alone: once the list has succeeded, the Create is accepted exactly when
\* the replica shows no default class, whatever is persisted.
C9_VerdictFromIndex ==
    (/\ ClassValidated
     /\ last.request.operation = Create
     /\ last.request.object.globalDefault
     /\ ListSucceeded(last.out.reads)) =>
        (last.out.err = NoError <=> Defaults(index) = {})

\* C9: with the replica lagging behind the persisted classes, a Create of a
\* default class is accepted whenever the replica shows no default, also
\* when a default class is persisted already, and a validation changes
\* neither the persisted classes nor the replica: two persisted defaults
\* are neither prevented nor repaired.
C9_RaceAccepted ==
    /\ [] C9_VerdictFromIndex
    /\ [][last'.call = "Validate" => (store' = store /\ index' = index)]_vars

\* Two default classes are persisted: the Create of the second was accepted
\* on a replica that showed neither.
C9_Witness ==
    /\ last = Idle
    /\ Cardinality(Defaults(store)) = 2
    /\ index = {}

\* ----------------------------------------------------------------- C11

\* The request is a Create or an Update of the primary resource res.
PrimaryWrite(a, res) ==
    /\ a.resource = res
    /\ a.subresource = ""
    /\ a.operation \in {Create, Update}

\* The call that has just returned succeeded without a read of the index
\* and left the object as it came.
PassedThrough ==
    /\ last.out.err = NoError
    /\ last.out.object = last.request.object
    /\ last.out.reads = <<>>
    /\ last.out.by = "dispatch"

\* C11: Admit passes through every request that is not a Create or an Update
\* of the primary pods resource, and Validate every request that is not a
\* Create or an Update of the primary priority-classes resource: the call
\* succeeds, reads nothing and leaves the object as it came.  Admit hands
\* only pods to admitPod and Validate only classes to validatePriorityClass,
\* and Validate never changes the object, so a write of a pod is never
\* refused by the validator and a write of a class is never mutated.
C11_PassThrough ==
    /\ (last.call = "Admit" /\ ~ PrimaryWrite(last.request, podResource))
            => PassedThrough
    /\ (last.call = "Validate" /\ ~ PrimaryWrite(last.request, priorityClassResource))
            => PassedThrough
    /\ (last.call = "Admit" /\ last.out.by = "admitPod")
            => PrimaryWrite(last.request, podResource)
    /\ (last.call = "Validate" /\ last.out.by = "validatePriorityClass")
            => PrimaryWrite(last.request, priorityClassResource)
    /\ last.call = "Validate" => last.out.object = last.request.object

\* While the index showed a default class, Validate passed the Create of a
\* pod through.
C11_Witness ==
    /\ last.call = "Validate"
    /\ last.request.operation = Create
    /\ last.request.resource = podResource
    /\ last.request.object.kind = "Pod"
    /\ Defaults(index) # {}
    /\ PassedThrough

\* ----------------------------------------------------------------- C12

\* Some read of the lister failed otherwise than by not finding the class.
ReadFailed(reads) == \E i \in 1..Len(reads) : reads[i].res = "error"

\* The call that has just returned was decided by admitPod on a Create of a
\* pod, or by validatePriorityClass on a class.
PolicyDecided ==
    \/ CreateResolved
    \/ /\ last.call = "Validate"
       /\ last.out.by = "validatePriorityClass"
       /\ last.request.object.kind = "PriorityClass"

\* C12: a Create of a pod that names a class the index does not find is
\* rejected as a policy violation; a failure of Get other than not-found, or
\* of List in the default path of admitPod or in validatePriorityClass, is
\* reported as a transient error; and a transient error is reported only
\* after such a failure, so a namespace breach, an unknown class, a priority
\* mismatch and a second default are policy violations, never transient.
C12_ErrorKinds ==
    PolicyDecided =>
        LET out == last.out
            a == last.request
        IN  /\ out.err \in {NoError, Forbidden, InternalError}
            /\ out.reads = <<[op |-> "Get", res |-> "NotFound"]>> => out.err = Forbidden
            /\ ReadFailed(out.reads) => out.err = InternalError
            /\ out.err = InternalError => ReadFailed(out.reads)
            /\ (last.call = "Admit" /\ a.object.priorityClassName # ""
                  /\ ~ priorityClassPermittedInNamespace(a.object.priorityClassName,
                                                          a.namespace))
                    => out.err = Forbidden
            /\ (last.call = "Admit" /\ out.computed # <<>>
                  /\ a.object.priority # <<>> /\ a.object.priority # out.computed)
                    => out.err = Forbidden
            /\ (last.call = "Validate" /\ a.operation = Create
                  /\ a.object.globalDefault /\ ListSucceeded(out.reads)
                  /\ Defaults(index) # {})
                    => out.err = Forbidden

\* The Create of a pod in the system namespace named a class that the index
\* does not hold; the lookup answered not-found and the pod was rejected as a
\* policy violation.
C12_Witness ==
    /\ CreateResolved
    /\ last.request.object.priorityClassName # ""
    /\ last.out.reads = <<[op |-> "Get", res |-> "NotFound"]>>
    /\ last.out.err = Forbidden

\* ----------------------------------------------------------------- C13

\* C13: whatever the index holds, several default classes included, an
\* Update of a class X that is marked default is rejected as a policy
\* violation when the index shows a default class of another name, and is
\* accepted when the only default class the index shows is X or there is
\* none (the List answering).
C13_UpdateAgainstAnyDefault ==
    (/\ ClassValidated
     /\ last.request.operation = Update
     /\ last.request.object.globalDefault
     /\ ListSucceeded(last.out.reads))
        => LET X == last.request.object.name
               others == {c \in Defaults(index) : c.name # X}
           IN  /\ others # {} => last.out.err = Forbidden
               /\ others = {} => last.out.err = NoError

\* ----------------------------------------------------------------- C14

\* The failure of the lister that the reads of a call show.
FaultOf(reads) == IF ReadFailed(reads) THEN reads[1].op ELSE "none"

\* What Create admission decides: the verdict and the two fields it stamps.
Decision(out) ==
    [err |-> out.err,
     priorityClassName |-> out.object.priorityClassName,
     priority |-> out.object.priority]

\* C14: for the classes the index holds and the pod that came, a Create
\* decides the same (the same verdict, the same stamped class name and the
\* same priority) in whatever order List returns the classes, also when
\* several default classes share the lowest value.
C14_OrderIndependent ==
    CreateResolved =>
        \A list \in SeqOf(index) :
            Decision(AdmitOutcome(last.request, gates, index, list,
                                  FaultOf(last.out.reads)))
                = Decision(last.out)

\* ----------------------------------------------------------------- C15

\* The gates with the legacy gate switched the other way.
LegacyGateFlipped ==
    [gates EXCEPT !.ExperimentalCriticalPodAnnotation = ~ @]

\* C15: while the PodPriority gate is disabled, Admit of every Create or
\* Update of a pod succeeds without a read of the index and leaves the pod
\* as it came, whatever the legacy gate says; and the legacy gate changes
\* the outcome of Admit only through the inference step, that is only for a
\* Create of a pod that names no class and carries the critical marker while
\* PodPriority is enabled.
C15_GatedOff ==
    last.call = "Admit" =>
        LET a == last.request
        IN  /\ (~ gates.PodPriority /\ a.resource = podResource
                  /\ a.operation \in {Create, Update})
                    => PassedThrough
            /\ ~ (/\ gates.PodPriority
                  /\ PrimaryWrite(a, podResource) /\ a.operation = Create
                  /\ a.object.kind = "Pod"
                  /\ a.object.priorityClassName = ""
                  /\ IsCritical(a.namespace, a.object))
                    => \E list \in SeqOf(index) :
                          AdmitOutcome(a, LegacyGateFlipped, index, list,
                                       FaultOf(last.out.reads)) = last.out

\* With PodPriority disabled and the legacy gate enabled, the Create of a
\* critical pod that names no class, in a namespace where the index shows a
\* default class, came back as it was sent.
C15_Witness ==
    /\ PodCreateReturned
    /\ ~ gates.PodPriority
    /\ gates.ExperimentalCriticalPodAnnotation
    /\ last.request.object.priorityClassName = ""
    /\ last.request.object.priority = <<>>
    /\ last.request.object.critical
    /\ Defaults(index) # {}
    /\ PassedThrough

\* ----------------------------------------------------------------- C16

\* C16: on a Create, the inference step sets the class name to
\* system-cluster-critical exactly when the pod names no class, the legacy
\* gate is enabled and the pod carries the critical marker.  Such a pod is
\* resolved as a pod that names that class: List is never read; outside the
\* system namespace it is rejected by the namespace check without a lookup;
\* in the system namespace the class is looked up, and the pod is admitted
\* only with the value of that class and is rejected when the index does not
\* hold it.  A pod that names no class and is not inferred goes through
\* List, and a pod that names a class keeps the name it came with.
C16_LegacyInference ==
    CreateResolved =>
        LET a == last.request
            out == last.out
            held == {c \in index : c.name = SystemClusterCritical}
        IN  /\ InferenceApplies(a) =>
                 /\ out.object.priorityClassName = SystemClusterCritical
                 /\ \A i \in 1..Len(out.reads) : out.reads[i].op = "Get"
                 /\ a.namespace # NamespaceSystem
                        => (out.err = Forbidden /\ out.reads = <<>>)
                 /\ a.namespace = NamespaceSystem => Len(out.reads) = 1
                 /\ out.err = NoError =>
                        /\ held # {}
                        /\ out.object.priority = <<Lowest(ValuesOf(held))>>
                 /\ held = {} => out.err # NoError
                 /\ held = {} => ~ GetSucceeded(out.reads)
                 /\ (held = {} /\ a.namespace = NamespaceSystem
                        /\ ~ ReadFailed(out.reads)) => out.err = Forbidden
                 /\ (held # {} /\ a.namespace = NamespaceSystem
                        /\ ~ ReadFailed(out.reads)
                        /\ a.object.priority \in {<<>>, <<Lowest(ValuesOf(held))>>})
                        => out.err = NoError
            /\ (~ InferenceApplies(a) /\ a.object.priorityClassName = "") =>
                 /\ Len(out.reads) = 1
                 /\ out.reads[1].op = "List"
            /\ a.object.priorityClassName # "" =>
                 out.object.priorityClassName = a.object.priorityClassName

\* With the legacy gate enabled, a critical pod that named no class was
\* created in the system namespace while the index held
\* system-cluster-critical, and was admitted under that name with the value
\* of that class, although the index also showed a default class.
C16_Witness ==
    /\ CreateResolved
    /\ InferenceApplies(last.request)
    /\ last.request.namespace = NamespaceSystem
    /\ Defaults(index) # {}
    /\ \E c \in index : /\ c.name = SystemClusterCritical
                        /\ ~ c.globalDefault
                        /\ last.out.object.priority = <<c.value>>
    /\ last.out.err = NoError
    /\ last.out.object.priorityClassName = SystemClusterCritical

\* ----------------------------------------------------------------- C17

\* How many times a part occurs in a string.
Occurrences(part, help) ==
    Cardinality({i \in 1..Len(help) : help[i] = part})

\* Every call has returned, and each method has been called.
CallsReturned ==
    /\ \A g \in Goroutines : goroutines[g].pc = "idle"
    /\ opts.deprecateOnce.done
    /\ opts.annotateOnce.done

\* C17: after any calls of markDeprecated and annotateStabilityLevel by
\* concurrent goroutines on one CounterOpts, each method called at least
\* once and every call returned, Help is the original help text with the
\* deprecation prefix once and the stability-level prefix once in front of
\* it: no prefix is duplicated, none is lost.
C17_DecoratedOnce ==
    CallsReturned =>
        /\ Occurrences("(Deprecated since", opts.Help) = 1
        /\ Occurrences("[", opts.Help) = 1
        /\ Occurrences(OriginalHelp, opts.Help) = 1
        /\ Len(opts.Help) = 7
        /\ opts.Help[Len(opts.Help)] = OriginalHelp

\* ----------------------------------------------------------------- C18

\* C18: whatever the index holds, a default class of a reserved name
\* included, a pod whose Create admitPod accepted in a namespace other than
\* the system namespace does not carry the name of a reserved class, whether
\* the name came with the pod, was inferred, or was taken from the default
\* class.
C18_NoReservedOutsideSystem ==
    (/\ CreateResolved
     /\ last.out.err = NoError
     /\ last.request.namespace # NamespaceSystem)
        => last.out.object.priorityClassName \notin SystemPriorityClasses

\* ----------------------------------------------------------------- C19

\* The request that sends the pod a Create has just left back through
\* admission.
Resent == [last.request EXCEPT !.object = last.out.object]

\* C19: while the index and the gates stay as they are and the lister
\* answers, the Create of a pod that admitPod has just accepted is accepted
\* again when the pod it left is sent through Admit once more in the same
\* namespace, and the second pass changes neither the class name nor the
\* priority.
C19_IdempotentOnOutput ==
    (CreateResolved /\ last.out.err = NoError) =>
        \A list \in SeqOf(index) :
            LET again == AdmitOutcome(Resent, gates, index, list, "none")
            IN  /\ again.err = NoError
                /\ again.object.priorityClassName = last.out.object.priorityClassName
                /\ again.object.priority = last.out.object.priority

\* ----------------------------------------------------------------- C20

\* The Create of a pod that admitPod has just rejected.
CreateRejected == CreateResolved /\ last.out.err # NoError

\* C20, as stated: whenever admitPod rejects the Create of a pod, as a
\* policy violation or with a transient error, the pod's priority and class
\* name are as they were before the call.
C20_RejectedUntouched ==
    CreateRejected =>
        /\ last.out.object.priority = last.request.object.priority
        /\ last.out.object.priorityClassName = last.request.object.priorityClassName

\* C20, amended: whenever admitPod rejects the Create of a pod, the pod's
\* priority is as it was before the call, and so is a class name that was
\* not empty.  An empty class name may have been filled in before the
\* rejection: with system-cluster-critical by the legacy inference, or with
\* the name of the lowest default class when the priority the pod came with
\* differs from that class's value; nothing else of the pod changes.
C20_RejectedPriorityUntouched ==
    CreateRejected =>
        LET a == last.request
            pod == a.object
            out == last.out
            lowest == {c \in Defaults(index) :
                          c.value = Lowest(ValuesOf(Defaults(index)))}
        IN  /\ out.object = [pod EXCEPT !.priorityClassName =
                                            out.object.priorityClassName]
            /\ pod.priorityClassName # ""
                => out.object.priorityClassName = pod.priorityClassName
            /\ (pod.priorityClassName = "" /\ InferenceApplies(a))
                => out.object.priorityClassName = SystemClusterCritical
            /\ (pod.priorityClassName = "" /\ ~ InferenceApplies(a))
                => \/ out.object.priorityClassName = ""
                   \/ /\ out.err = Forbidden
                      /\ ListSucceeded(out.reads)
                      /\ pod.priority # <<>>
                      /\ \E c \in lowest :
                            /\ out.object.priorityClassName = c.name
                            /\ pod.priority # <<c.value>>

\* A pod that named no class and came with a priority other than the value
\* of the default class was rejected, and left with the name of that class
\* and with the priority it came with.
C20_Witness ==
    /\ CreateRejected
    /\ last.request.object.priorityClassName = ""
    /\ ~ InferenceApplies(last.request)
    /\ last.out.err = Forbidden
    /\ last.out.object.priorityClassName = "a"
    /\ last.request.object.priority = <<2>>
    /\ last.out.object.priority = <<2>>

====
